---- MODULE Spec2Model ----
(***************************************************************************)
(* Model of inference.py: the two S3 transfer functions                    *)
(* (upload_file_to_s3, download_file_from_s3), predict,                    *)
(* persist_predictions and the __main__ pipeline driver.                   *)
(*                                                                         *)
(* Strings that the code takes apart or puts together are modelled as      *)
(* sequences: a path or an object key is the sequence of its components    *)
(* ("/tmp/test.csv" is <<"tmp", "test.csv">>), a URL is the sequence of    *)
(* the pieces the f-string concatenates.  An optional value is <<>> for    *)
(* None / unbound and <<v>> for a value, except for keys and paths, where  *)
(* None is the empty sequence of components.                               *)
(***************************************************************************)
EXTENDS Integers, Sequences, FiniteSets, TLC

VARIABLES
    entry,        \* which entry point the caller ran: the script or one of the two functions
    pc,           \* position in the code
    env,          \* os.environ as the code reads it
    remote,       \* the CSV content of the remote object that is downloaded
    fs,           \* local regular files: path -> <<>> (absent) or <<csv>> (content)
    dirs,         \* local directories that exist
    args,         \* the arguments of the running transfer call, as passed
    object_key,   \* local variable object_key of the running transfer call
    file_path,    \* local variable file_path of the running transfer call
    file_url,     \* local variable file_url of upload_file_to_s3 (<<>> until assigned)
    ret,          \* return value(s) of the last transfer call, <<>> while none
    raised,       \* the exception that left the entry point uncaught (type "none" if none)
    calls,        \* every call made to boto3, mlflow and to_csv, in order, with its outcome
    out,          \* diagnostics printed to standard output, in order
    downloaded,   \* __main__: downloaded (<<>> until assigned)
    df,           \* __main__: df (<<>> while the name is unbound)
    tracking_uri, \* mlflow's process-wide tracking URI (<<>> until set)
    model,        \* predict: loaded_model (<<>> until loaded)
    predictions,  \* __main__: predictions (<<>> until assigned)
    preds_df,     \* __main__: preds_df (<<>> until assigned)
    uploaded      \* persist_predictions: uploaded (<<>> until assigned)

vars == <<entry, pc, env, remote, fs, dirs, args, object_key, file_path, file_url, ret,
          raised, calls, out, downloaded, df, tracking_uri, model, predictions,
          preds_df, uploaded>>

-----------------------------------------------------------------------------
(* Bounds of the model *)

MaxRows == 2

-----------------------------------------------------------------------------
(* Values *)

NoneStr == "None"
NoneKey == <<>>

TestCsv == <<"tmp", "test.csv">>
PredCsv == <<"tmp", "predictions.csv">>
PredKey == <<"data", "predictions.csv">>
DefaultRegion == "us-east-1"

TestKey == <<"data", "test.csv">>
Paths == {TestCsv, PredCsv, <<"report.csv">>, <<"work", "out", "a.csv">>}
Keys == {PredKey, TestKey, <<"test.csv">>}
LocalPaths == Paths \cup {<<k[Len(k)]>> : k \in Keys}
Buckets == {"titanic", "does-not-exist"}
Endpoints == {NoneStr, "http://minio:9000"}
Regions == {DefaultRegion, "eu-west-1"}

Ids == {1, 2}
Labels == {0, 1}
Rows == [PassengerId : Ids, Feature1 : {5}]
Tables == UNION {[1..n -> Rows] : n \in 0..MaxRows}
PredictionLists == UNION {[1..n -> Labels] : n \in 0..MaxRows}
InputColumns == <<"PassengerId", "Feature1">>
OutputColumns == <<"PassengerId", "predictions">>

NoExc == [type |-> "none", code |-> "", msg |-> ""]
Exc(t) == [type |-> t, code |-> "", msg |-> ""]
ClientError(c) == [type |-> "ClientError", code |-> c, msg |-> ""]
Wrapped(m) == [type |-> "Exception", code |-> "", msg |-> m]

\* What the constructor boto3.client can raise.
ClientInitErrors == {Exc("ValueError"), Exc("PartialCredentialsError")}
\* What a request to the object store can raise.
ErrorCodes == {"404", "NoSuchBucket", "AccessDenied", "InternalError"}
RequestErrors == {Exc("NoCredentialsError"), Exc("EndpointConnectionError")}
                   \cup {ClientError(c) : c \in ErrorCodes}
\* What mlflow's load_model / the model's predict can raise.
ModelErrors == {Exc("MlflowException")}

\* A logged call: what was called, on what, and what it raised (NoExc if it returned).
Call(op, b, k, p, r) == [op |-> op, bucket |-> b, key |-> k, path |-> p, result |-> r]
NoArgs == [file_path |-> <<>>, bucket_name |-> "", object_key |-> NoneKey,
           endpoint_url |-> NoneStr, region |-> DefaultRegion]

-----------------------------------------------------------------------------
(* Python helpers *)

\* isinstance(e, cls) for the exception classes the code names: every class
\* modelled derives from Exception, and none of the others from one another.
IsInstance(t, cls) == cls = "Exception" \/ t = cls

\* The first except clause of a try statement that catches e; 0 if none does.
Match(clauses, e) ==
    IF \E i \in 1..Len(clauses) : IsInstance(e.type, clauses[i])
    THEN CHOOSE i \in 1..Len(clauses) :
            /\ IsInstance(e.type, clauses[i])
            /\ \A j \in 1..(i - 1) : ~IsInstance(e.type, clauses[j])
    ELSE 0

\* Path(p).name
PathName(p) == IF Len(p) = 0 THEN "" ELSE p[Len(p)]

\* Path(p).parent
PathParent(p) == IF Len(p) = 0 THEN <<>> ELSE SubSeq(p, 1, Len(p) - 1)

\* A path or key written out as a string: its components joined by "/".
RECURSIVE Join(_)
Join(p) == IF Len(p) = 0 THEN <<>>
           ELSE IF Len(p) = 1 THEN <<p[1]>>
           ELSE <<p[1], "/">> \o Join(Tail(p))

\* Variant of IsFile: the existence check is dropped.
IsFileUnchecked(p) == TRUE

\* os.path.isfile
IsFile(p) == p \in DOMAIN fs /\ fs[p] # <<>>

\* Path(p).mkdir(parents=True, exist_ok=True): p and every ancestor of p.
MkdirParents(p) == {SubSeq(p, 1, n) : n \in 1..Len(p)}

\* DataFrame.to_csv(path, index=False): a header line with the column names,
\* then one line per row holding the row's values in column order.
ToCsv(table, columns) ==
    [header |-> columns,
     rows   |-> [i \in 1..Len(table) |->
                    [j \in 1..Len(columns) |-> table[i][columns[j]]]]]

\* pd.read_csv(path): one row per line after the header, each value named by
\* the header field of its position; rows keep the order of the file.
ReadCsv(csv) ==
    [i \in 1..Len(csv.rows) |->
        [c \in {csv.header[j] : j \in 1..Len(csv.header)} |->
            csv.rows[i][CHOOSE j \in 1..Len(csv.header) : csv.header[j] = c]]]

\* A file left in a staging path by an earlier run.
StaleCsv == [header |-> InputColumns, rows |-> << <<0, 0>> >>]

-----------------------------------------------------------------------------
(* Control transfer *)

\* Where control goes when transfer function fn returns.
ReturnPc(fn) ==
    IF entry = "main"
    THEN IF fn = "download" THEN "main_after_download" ELSE "persist_return"
    ELSE "done"

-----------------------------------------------------------------------------
(* upload_file_to_s3 *)

\* Variant of UploadExcept: the catch-all clause is missing.
UploadExceptNoCatchAll == <<"NoCredentialsError", "ClientError">>

\* The except clauses of the try statement of upload_file_to_s3, in order.
UploadExcept == <<"NoCredentialsError", "ClientError", "Exception">>

\* What except clause i prints for exception e.
UploadDiag(i, e) ==
    IF i = 1 THEN <<"credentials_not_found", "credentials_how_to">>
    ELSE IF i = 2
    THEN IF e.code = "NoSuchBucket" THEN <<"bucket_does_not_exist">>
         ELSE IF e.code = "AccessDenied" THEN <<"access_denied">>
         ELSE <<"error_uploading">>
    ELSE <<"unexpected_error">>

\* Exception e raised inside the try statement, o being what is printed so far:
\* the first matching clause prints and returns False; unmatched, e propagates.
UploadFail(e, o) ==
    LET i == Match(UploadExcept, e) IN
    IF i = 0
    THEN /\ raised' = e
         /\ pc' = "raised"
         /\ out' = o
         /\ UNCHANGED ret
    ELSE /\ out' = o \o UploadDiag(i, e)
         /\ ret' = <<FALSE>>
         /\ pc' = ReturnPc("upload")
         /\ UNCHANGED raised

\* The URL printed after a successful upload.
FileUrl(endpoint, bucket, region, key) ==
    IF endpoint = NoneStr
    THEN <<"https://", bucket, ".s3.", region, ".amazonaws.com/">> \o Join(key)
    ELSE <<endpoint, "/", bucket, "/">> \o Join(key)

\* Variant of UploadKey: the default is the whole path, not its base name.
UploadKeyWholePath(k, p) == IF k = NoneKey THEN p ELSE k

\* The key used when the caller passed object_key k for local file p.
UploadKey(k, p) == IF k = NoneKey THEN <<PathName(p)>> ELSE k

\* What upload_file_to_s3 returns on success.
UploadSuccess(url) == <<TRUE>>

\* Lines 37-44: the file check and the default of object_key.
UploadValidate ==
    /\ pc = "up_validate"
    /\ IF ~IsFile(args.file_path)
       THEN /\ out' = Append(out, "file_not_found")
            /\ ret' = <<FALSE>>
            /\ pc' = ReturnPc("upload")
            /\ UNCHANGED object_key
       ELSE /\ object_key' = UploadKey(args.object_key, args.file_path)
            /\ pc' = "up_client"
            /\ UNCHANGED <<out, ret>>
    /\ UNCHANGED <<entry, env, remote, fs, dirs, args, file_path, file_url, raised,
                   calls, downloaded, df, tracking_uri, model, predictions,
                   preds_df, uploaded>>

\* Lines 46-54: boto3.client(...), which returns a client or raises.
UploadCreateClient ==
    /\ pc = "up_client"
    /\ \/ /\ calls' = Append(calls, Call("boto3.client", "", <<>>, <<>>, NoExc))
          /\ pc' = "up_transfer"
          /\ UNCHANGED <<out, ret, raised>>
       \/ \E e \in ClientInitErrors :
            /\ calls' = Append(calls, Call("boto3.client", "", <<>>, <<>>, e))
            /\ UploadFail(e, out)
    /\ UNCHANGED <<entry, env, remote, fs, dirs, args, object_key, file_path, file_url,
                   downloaded, df, tracking_uri, model, predictions, preds_df,
                   uploaded>>

\* Lines 56-83: the size is printed, upload_file is called once, and on
\* success the URL is built and printed and True returned.
UploadTransfer ==
    /\ pc = "up_transfer"
    /\ \/ /\ calls' = Append(calls, Call("upload_file", args.bucket_name, object_key,
                                         args.file_path, NoExc))
          /\ file_url' = FileUrl(args.endpoint_url, args.bucket_name, args.region,
                                  object_key)
          /\ out' = out \o <<"uploading", "uploaded", "file_url">>
          /\ ret' = UploadSuccess(file_url')
          /\ pc' = ReturnPc("upload")
          /\ UNCHANGED raised
       \/ /\ \E e \in RequestErrors \cup {Exc("S3UploadFailedError")} :
                /\ calls' = Append(calls, Call("upload_file", args.bucket_name,
                                               object_key, args.file_path, e))
                /\ UploadFail(e, Append(out, "uploading"))
          /\ UNCHANGED file_url
    /\ UNCHANGED <<entry, env, remote, fs, dirs, args, object_key, file_path,
                   downloaded, df, tracking_uri, model, predictions, preds_df,
                   uploaded>>

-----------------------------------------------------------------------------
(* download_file_from_s3 *)

\* Variant of DownloadExcept: the catch-all clause is missing.
DownloadExceptNoCatchAll == <<"NoCredentialsError", "ClientError">>

\* The except clauses of the outer try statement of download_file_from_s3.
DownloadExcept == <<"NoCredentialsError", "ClientError", "Exception">>

\* What except clause i of the outer try statement prints for exception e.
DownloadDiag(i, e) ==
    IF i = 1 THEN <<"credentials_not_found", "credentials_how_to">>
    ELSE IF i = 2
    THEN IF e.code = "NoSuchBucket" THEN <<"bucket_does_not_exist">>
         ELSE IF e.code = "AccessDenied" THEN <<"access_denied">>
         ELSE <<"error_downloading">>
    ELSE <<"unexpected_error">>

\* Exception e raised inside the outer try statement, o being what is printed
\* so far.
DownloadFail(e, o) ==
    LET i == Match(DownloadExcept, e) IN
    IF i = 0
    THEN /\ raised' = e
         /\ pc' = "raised"
         /\ out' = o
         /\ UNCHANGED ret
    ELSE /\ out' = o \o DownloadDiag(i, e)
         /\ ret' = <<FALSE>>
         /\ pc' = ReturnPc("download")
         /\ UNCHANGED raised

\* Variant of ProbeExcept: a ClientError of the probe is swallowed.
ProbeExceptSwallow(e) ==
    IF e.type # "ClientError"
    THEN [kind |-> "raise", exc |-> e]
    ELSE [kind |-> "continue", exc |-> NoExc]

\* The inner try statement around head_object, for exception e: "return" (print
\* not-found, return False), "raise" exc into the outer try statement, or
\* "continue" with the statement after the inner try.
ProbeExcept(e) ==
    IF Match(<<"ClientError">>, e) = 0
    THEN [kind |-> "raise", exc |-> e]
    ELSE IF e.code = "404"
         THEN [kind |-> "return", exc |-> NoExc]
         ELSE [kind |-> "raise", exc |-> Wrapped("Error checking object existence")]

\* Lines 140-152: the default of file_path, then boto3.client(...).
DownloadCreateClient ==
    /\ pc = "dl_client"
    /\ file_path' = IF args.file_path = <<>> THEN <<PathName(args.object_key)>>
                    ELSE args.file_path
    /\ \/ /\ calls' = Append(calls, Call("boto3.client", "", <<>>, <<>>, NoExc))
          /\ pc' = "dl_probe"
          /\ UNCHANGED <<out, ret, raised>>
       \/ \E e \in ClientInitErrors :
            /\ calls' = Append(calls, Call("boto3.client", "", <<>>, <<>>, e))
            /\ DownloadFail(e, out)
    /\ UNCHANGED <<entry, env, remote, fs, dirs, args, object_key, file_url,
                   downloaded, df, tracking_uri, model, predictions, preds_df,
                   uploaded>>

\* Lines 154-170: head_object and the inner try statement.
DownloadProbe ==
    /\ pc = "dl_probe"
    /\ \/ /\ calls' = Append(calls, Call("head_object", args.bucket_name,
                                         args.object_key, <<>>, NoExc))
          /\ out' = Append(out, "downloading")
          /\ pc' = "dl_transfer"
          /\ UNCHANGED <<ret, raised>>
       \/ \E e \in RequestErrors :
            /\ calls' = Append(calls, Call("head_object", args.bucket_name,
                                           args.object_key, <<>>, e))
            /\ LET h == ProbeExcept(e) IN
               IF h.kind = "return"
               THEN /\ out' = Append(out, "object_not_found")
                    /\ ret' = <<FALSE>>
                    /\ pc' = ReturnPc("download")
                    /\ UNCHANGED raised
               ELSE IF h.kind = "raise"
               THEN DownloadFail(h.exc, out)
               ELSE /\ pc' = "dl_transfer"
                    /\ UNCHANGED <<out, ret, raised>>
    /\ UNCHANGED <<entry, env, remote, fs, dirs, args, object_key, file_path, file_url,
                   downloaded, df, tracking_uri, model, predictions, preds_df,
                   uploaded>>

\* Lines 172-185: the parent directories are made, download_file is called
\* once, and on success the sizes are printed and True returned.
DownloadTransfer ==
    /\ pc = "dl_transfer"
    /\ dirs' = dirs \cup MkdirParents(PathParent(file_path))
    /\ \/ /\ calls' = Append(calls, Call("download_file", args.bucket_name,
                                         args.object_key, file_path, NoExc))
          /\ fs' = [fs EXCEPT ![file_path] = <<remote>>]
          /\ out' = out \o <<"downloaded", "local_size">>
          /\ ret' = <<TRUE>>
          /\ pc' = ReturnPc("download")
          /\ UNCHANGED raised
       \/ /\ \E e \in RequestErrors :
                /\ calls' = Append(calls, Call("download_file", args.bucket_name,
                                               args.object_key, file_path, e))
                /\ DownloadFail(e, out)
          /\ UNCHANGED fs
    /\ UNCHANGED <<entry, env, remote, args, object_key, file_path, file_url,
                   downloaded, df, tracking_uri, model, predictions, preds_df,
                   uploaded>>

-----------------------------------------------------------------------------
(* predict, persist_predictions and __main__ *)

\* Variant of DataFrame: the predictions are joined on PassengerId, each row
\* taking the prediction of the first row that has its identifier.
DataFrameJoined(d, p) ==
    [i \in 1..Len(d) |->
        [PassengerId |-> d[i].PassengerId,
         predictions |-> p[CHOOSE j \in 1..Len(d) :
                              /\ d[j].PassengerId = d[i].PassengerId
                              /\ \A k \in 1..(j - 1) :
                                    d[k].PassengerId # d[i].PassengerId]]]

\* pd.DataFrame({"PassengerId": df["PassengerId"], "predictions": predictions}):
\* the frame takes the index of the PassengerId series (the rows of df, in
\* order) and the list of predictions fills its column position by position.
DataFrame(d, p) ==
    [i \in 1..Len(d) |-> [PassengerId |-> d[i].PassengerId, predictions |-> p[i]]]

\* Variant of MainExcept: the exception is re-raised as it is.
MainExceptBare(e) == e

\* The try statement around predict(df) (lines 273-277), for exception e: the
\* exception that leaves it.
MainExcept(e) ==
    IF Match(<<"Exception">>, e) = 0 THEN e ELSE Wrapped("Error during prediction")

\* Lines 241-256: the configuration is read and download_file_from_s3 called.
MainStart ==
    /\ pc = "main_start"
    /\ args' = [file_path |-> TestCsv, bucket_name |-> env.S3_BUCKET_NAME,
                object_key |-> env.S3_OBJECT_KEY,
                endpoint_url |-> env.S3_ENDPOINT_URL,
                region |-> env.AWS_DEFAULT_REGION]
    /\ pc' = "dl_client"
    /\ UNCHANGED <<entry, env, remote, fs, dirs, object_key, file_path, file_url, ret,
                   raised, calls, out, downloaded, df, tracking_uri, model,
                   predictions, preds_df, uploaded>>

\* Variant of MainAfterDownload: the staged file is read whenever it exists,
\* whatever download_file_from_s3 returned.
MainAfterDownloadReadAlways ==
    /\ pc = "main_after_download"
    /\ downloaded' = <<ret[1]>>
    /\ IF fs[TestCsv] # <<>>
       THEN /\ df' = <<ReadCsv(fs[TestCsv][1])>>
            /\ out' = Append(out, "df_head")
       ELSE /\ out' = Append(out, "download_failed")
            /\ UNCHANGED df
    /\ pc' = "main_tracking"
    /\ UNCHANGED <<entry, env, remote, fs, dirs, args, object_key, file_path, file_url,
                   ret, raised, calls, tracking_uri, model, predictions, preds_df,
                   uploaded>>

\* Lines 248, 258-263: downloaded is assigned; df is read only if it is true.
MainAfterDownload ==
    /\ pc = "main_after_download"
    /\ downloaded' = <<ret[1]>>
    /\ IF ret[1]
       THEN /\ df' = <<ReadCsv(fs[TestCsv][1])>>
            /\ out' = Append(out, "df_head")
       ELSE /\ out' = Append(out, "download_failed")
            /\ UNCHANGED df
    /\ pc' = "main_tracking"
    /\ UNCHANGED <<entry, env, remote, fs, dirs, args, object_key, file_path, file_url,
                   ret, raised, calls, tracking_uri, model, predictions, preds_df,
                   uploaded>>

\* Lines 265-270: mlflow.set_tracking_uri.
MainSetTracking ==
    /\ pc = "main_tracking"
    /\ tracking_uri' = <<env.MLFLOW_TRACKING_URI>>
    /\ calls' = Append(calls, Call("set_tracking_uri", "", <<>>, <<>>, NoExc))
    /\ out' = Append(out, "tracking_uri")
    /\ pc' = "main_predict"
    /\ UNCHANGED <<entry, env, remote, fs, dirs, args, object_key, file_path, file_url,
                   ret, raised, downloaded, df, model, predictions, preds_df,
                   uploaded>>

\* Lines 273-275: the argument df of predict(df) is evaluated, which raises
\* NameError while df is unbound; otherwise predict is entered.
MainPredict ==
    /\ pc = "main_predict"
    /\ out' = Append(out, "making_predictions")
    /\ IF df = <<>>
       THEN /\ raised' = MainExcept(Exc("NameError"))
            /\ pc' = "raised"
       ELSE /\ pc' = "predict_load"
            /\ UNCHANGED raised
    /\ UNCHANGED <<entry, env, remote, fs, dirs, args, object_key, file_path, file_url,
                   ret, calls, downloaded, df, tracking_uri, model, predictions,
                   preds_df, uploaded>>

\* Variant of PredictLoad: a failed load is tried again.
PredictLoadRetry ==
    /\ pc = "predict_load"
    /\ \/ /\ calls' = Append(calls, Call("load_model", "", <<>>, <<>>, NoExc))
          /\ model' = <<env.MLFLOW_LOGGED_MODEL>>
          /\ pc' = "predict_call"
       \/ /\ \E e \in ModelErrors :
                calls' = Append(calls, Call("load_model", "", <<>>, <<>>, e))
          /\ pc' = "predict_load"
          /\ UNCHANGED model
    /\ UNCHANGED <<entry, env, remote, fs, dirs, args, object_key, file_path, file_url,
                   ret, raised, out, downloaded, df, tracking_uri, predictions,
                   preds_df, uploaded>>

\* Lines 216-219: mlflow.pyfunc.load_model.
PredictLoad ==
    /\ pc = "predict_load"
    /\ \/ /\ calls' = Append(calls, Call("load_model", "", <<>>, <<>>, NoExc))
          /\ model' = <<env.MLFLOW_LOGGED_MODEL>>
          /\ pc' = "predict_call"
          /\ UNCHANGED raised
       \/ /\ \E e \in ModelErrors :
                /\ calls' = Append(calls, Call("load_model", "", <<>>, <<>>, e))
                /\ raised' = MainExcept(e)
          /\ pc' = "raised"
          /\ UNCHANGED model
    /\ UNCHANGED <<entry, env, remote, fs, dirs, args, object_key, file_path, file_url,
                   ret, out, downloaded, df, tracking_uri, predictions, preds_df,
                   uploaded>>

\* Lines 222, 275: loaded_model.predict(input_data), which returns a list of
\* predictions or raises.
PredictCall ==
    /\ pc = "predict_call"
    /\ \/ /\ calls' = Append(calls, Call("predict", "", <<>>, <<>>, NoExc))
          /\ \E p \in PredictionLists : predictions' = <<p>>
          /\ pc' = "main_assemble"
          /\ UNCHANGED raised
       \/ /\ \E e \in ModelErrors :
                /\ calls' = Append(calls, Call("predict", "", <<>>, <<>>, e))
                /\ raised' = MainExcept(e)
          /\ pc' = "raised"
          /\ UNCHANGED predictions
    /\ UNCHANGED <<entry, env, remote, fs, dirs, args, object_key, file_path, file_url,
                   ret, out, downloaded, df, tracking_uri, model, preds_df,
                   uploaded>>

\* Lines 279-287: the output table is assembled; pandas raises ValueError when
\* the list of predictions is not as long as the index.
MainAssemble ==
    /\ pc = "main_assemble"
    /\ IF Len(predictions[1]) # Len(df[1])
       THEN /\ raised' = Exc("ValueError")
            /\ pc' = "raised"
            /\ UNCHANGED <<preds_df, out>>
       ELSE /\ preds_df' = <<DataFrame(df[1], predictions[1])>>
            /\ out' = out \o <<"predictions", "preds_head">>
            /\ pc' = "persist"
            /\ UNCHANGED raised
    /\ UNCHANGED <<entry, env, remote, fs, dirs, args, object_key, file_path, file_url,
                   ret, calls, downloaded, df, tracking_uri, model, predictions,
                   uploaded>>

\* Lines 226-235: the table is written to the output staging path, then
\* upload_file_to_s3 is called.
PersistToCsv ==
    /\ pc = "persist"
    /\ fs' = [fs EXCEPT ![PredCsv] = <<ToCsv(preds_df[1], OutputColumns)>>]
    /\ calls' = Append(calls, Call("to_csv", "", <<>>, PredCsv, NoExc))
    /\ args' = [file_path |-> PredCsv, bucket_name |-> env.S3_BUCKET_NAME,
                object_key |-> PredKey,
                endpoint_url |-> env.S3_ENDPOINT_URL,
                region |-> env.AWS_DEFAULT_REGION]
    /\ ret' = <<>>
    /\ pc' = "up_validate"
    /\ UNCHANGED <<entry, env, remote, dirs, object_key, file_path, file_url, raised,
                   out, downloaded, df, tracking_uri, model, predictions, preds_df,
                   uploaded>>

\* Variant of PersistReturn: success is reported whatever the upload returned.
PersistReturnTrue ==
    /\ pc = "persist_return"
    /\ uploaded' = <<TRUE>>
    /\ pc' = "done"
    /\ UNCHANGED <<entry, env, remote, fs, dirs, args, object_key, file_path, file_url,
                   ret, raised, calls, out, downloaded, df, tracking_uri, model,
                   predictions, preds_df>>

\* Lines 227, 236, 288: uploaded is assigned and returned; __main__ ends.
PersistReturn ==
    /\ pc = "persist_return"
    /\ uploaded' = <<ret[1]>>
    /\ pc' = "done"
    /\ UNCHANGED <<entry, env, remote, fs, dirs, args, object_key, file_path, file_url,
                   ret, raised, calls, out, downloaded, df, tracking_uri, model,
                   predictions, preds_df>>

-----------------------------------------------------------------------------
(* Specification *)

Envs == [S3_BUCKET_NAME : Buckets, S3_OBJECT_KEY : {TestKey},
         S3_ENDPOINT_URL : Endpoints, AWS_DEFAULT_REGION : Regions,
         MLFLOW_TRACKING_URI : {"http://mlflow:5000"},
         MLFLOW_LOGGED_MODEL : {"runs:/1/model"}]

RemoteObjects == {ToCsv(t, InputColumns) : t \in Tables}

NoFiles == [p \in LocalPaths |-> <<>>]

\* The script is run: nothing is bound yet; the staging files may be left
\* over from an earlier run.
InitMain ==
    /\ entry = "main"
    /\ pc = "main_start"
    /\ env \in Envs
    /\ \E a, b \in {<<>>, <<StaleCsv>>} :
          fs = [NoFiles EXCEPT ![TestCsv] = a, ![PredCsv] = b]
    /\ dirs = {<<"tmp">>}
    /\ args = NoArgs

\* A caller calls upload_file_to_s3.
InitUpload ==
    /\ entry = "upload"
    /\ pc = "up_validate"
    /\ env = CHOOSE e \in Envs : TRUE
    /\ args \in [file_path : Paths, bucket_name : Buckets,
                  object_key : {NoneKey, PredKey}, endpoint_url : Endpoints,
                  region : Regions]
    /\ \E S \in SUBSET {args.file_path, TestCsv} :
          fs = [p \in LocalPaths |-> IF p \in S THEN <<StaleCsv>> ELSE <<>>]
    /\ dirs = {<<"tmp">>}

\* A caller calls download_file_from_s3.
InitDownload ==
    /\ entry = "download"
    /\ pc = "dl_client"
    /\ env = CHOOSE e \in Envs : TRUE
    /\ args \in [file_path : {<<>>, TestCsv, <<"work", "out", "a.csv">>},
                  bucket_name : Buckets, object_key : Keys,
                  endpoint_url : Endpoints, region : {DefaultRegion}]
    /\ fs = NoFiles
    /\ dirs = {<<"tmp">>}

Init ==
    /\ InitMain \/ InitUpload \/ InitDownload
    /\ remote \in RemoteObjects
    /\ object_key = NoneKey
    /\ file_path = <<>>
    /\ file_url = <<>>
    /\ ret = <<>>
    /\ raised = NoExc
    /\ calls = <<>>
    /\ out = <<>>
    /\ downloaded = <<>>
    /\ df = <<>>
    /\ tracking_uri = <<>>
    /\ model = <<>>
    /\ predictions = <<>>
    /\ preds_df = <<>>
    /\ uploaded = <<>>

Next ==
    \/ MainStart
    \/ DownloadCreateClient
    \/ DownloadProbe
    \/ DownloadTransfer
    \/ MainAfterDownload
    \/ MainSetTracking
    \/ MainPredict
    \/ PredictLoad
    \/ PredictCall
    \/ MainAssemble
    \/ PersistToCsv
    \/ UploadValidate
    \/ UploadCreateClient
    \/ UploadTransfer
    \/ PersistReturn

Spec == Init /\ [][Next]_vars

-----------------------------------------------------------------------------
(* Properties *)

Ops(S) == {i \in 1..Len(calls) : calls[i].op \in S}
Failed(S) == {i \in Ops(S) : calls[i].result # NoExc}
LastOf(q) == q[Len(q)]

\* The pipeline's download returned False.
DownloadFailedInMain ==
    /\ entry = "main"
    /\ \/ pc = "main_after_download" /\ ret = <<FALSE>>
       \/ downloaded = <<FALSE>>

\* C1: in the pipeline, once the download has returned failure, no model is
\* loaded, Predict is not called, the output staging file is not written and
\* Upload is not attempted: the run can only go on to configure the tracking
\* endpoint and end with a raised error.
C1_AbortAfterFailedDownload ==
    DownloadFailedInMain =>
        /\ Ops({"load_model", "predict", "to_csv", "upload_file"}) = {}
        /\ model = <<>> /\ predictions = <<>> /\ preds_df = <<>> /\ uploaded = <<>>
        /\ pc \in {"main_after_download", "main_tracking", "main_predict", "raised"}
        /\ pc = "raised" => raised = Wrapped("Error during prediction")

C1_Witness ==
    /\ DownloadFailedInMain
    /\ pc = "raised"
    /\ fs[TestCsv] # <<>>

\* The metadata probe failed with a service error other than not-found.
ProbeOtherError ==
    \E i \in Ops({"head_object"}) :
        calls[i].result.type = "ClientError" /\ calls[i].result.code # "404"

\* C2 (as claimed): when the probe fails with a service error other than
\* not-found, Download does not return failure: the wrapped error leaves
\* Download and ends the run.
C2_ProbeErrorPropagates ==
    ProbeOtherError =>
        /\ ret # <<FALSE>>
        /\ pc = "raised"
        /\ raised = Wrapped("Error checking object existence")

\* C2 (amended): when the probe fails with a service error other than
\* not-found, the wrapped error is caught by Download's own catch-all clause:
\* Download prints the unexpected-error diagnostic and returns False, without
\* attempting the transfer, and the wrapped error never leaves Download.
C2_ProbeErrorReturnsFalse ==
    ProbeOtherError =>
        /\ ret = <<FALSE>>
        /\ raised # Wrapped("Error checking object existence")
        /\ Ops({"download_file"}) = {}
        /\ \E i \in 1..Len(out) : out[i] = "unexpected_error"
        /\ entry = "download" => pc = "done" /\ raised = NoExc

C2_Witness ==
    /\ ProbeOtherError
    /\ entry = "download"
    /\ pc = "done"
    /\ LastOf(calls).result = ClientError("AccessDenied")

\* The metadata probe answered not-found.
ProbeNotFound ==
    \E i \in Ops({"head_object"}) : calls[i].result = ClientError("404")

\* C3: a Download whose probe answered not-found returns False after exactly
\* one probe and no call of download_file.
C3_NotFoundFailsFast ==
    ProbeNotFound =>
        /\ Cardinality(Ops({"head_object"})) = 1
        /\ Ops({"download_file"}) = {}
        /\ ret = <<FALSE>>
        /\ raised.msg # "Error checking object existence"
        /\ entry = "download" => pc = "done" /\ raised = NoExc

C3_Witness ==
    /\ ProbeNotFound
    /\ entry = "download"
    /\ pc = "done"
    /\ ret = <<FALSE>>

\* C4: Upload of a local path that is no existing file returns False without
\* constructing a client or calling upload_file, and raises nothing.
C4_MissingFileNoNetwork ==
    (entry = "upload" /\ fs[args.file_path] = <<>>) =>
        /\ calls = <<>>
        /\ raised = NoExc
        /\ pc \in {"up_validate", "done"}
        /\ pc = "done" => ret = <<FALSE>> /\ out = <<"file_not_found">>

C4_Witness ==
    /\ entry = "upload"
    /\ fs[args.file_path] = <<>>
    /\ pc = "done"
    /\ ret = <<FALSE>>

\* An Upload of an existing file has ended.
UploadEnded ==
    /\ \/ entry = "upload" /\ pc \in {"done", "raised"}
       \/ entry = "main" /\ Ops({"to_csv"}) # {} /\ pc \in {"persist_return", "done", "raised"}
    /\ fs[args.file_path] # <<>>

\* The calls an Upload makes.
UploadCalls ==
    IF entry = "upload" THEN Ops({"boto3.client", "upload_file"})
    ELSE {i \in Ops({"boto3.client", "upload_file"}) : \E j \in Ops({"to_csv"}) : j < i}

\* An Upload of an existing file has ended after one of its calls raised.
UploadFailed == UploadEnded /\ \E i \in UploadCalls : calls[i].result # NoExc

\* C5 (as claimed): every failed Upload of an existing file returns False,
\* raises nothing, and has called upload_file exactly once.
C5_FailedUploadTransfersOnce ==
    UploadFailed =>
        /\ ret = <<FALSE>>
        /\ raised = NoExc
        /\ Cardinality(Ops({"upload_file"})) = 1

\* C5 (amended): every failed Upload of an existing file returns False and
\* raises nothing; the call that failed is the last one made (nothing is
\* retried); upload_file is called at most once, exactly once if the client
\* was constructed and not at all if its construction failed; a missing
\* bucket is reported as such.
C5_FailedUploadReturnsFalse ==
    /\ UploadEnded => pc # "raised" /\ raised = NoExc
    /\ UploadFailed =>
        /\ ret = <<FALSE>>
        /\ LastOf(calls).result # NoExc
        /\ Cardinality({i \in UploadCalls : calls[i].result # NoExc}) = 1
        /\ Cardinality(Ops({"upload_file"})) =
              (IF LastOf(calls).op = "upload_file" THEN 1 ELSE 0)
        /\ LastOf(calls).result = ClientError("NoSuchBucket")
              => LastOf(out) = "bucket_does_not_exist"

C5_Witness ==
    /\ UploadFailed
    /\ entry = "upload"
    /\ args.bucket_name = "does-not-exist"
    /\ LastOf(calls).op = "upload_file"
    /\ LastOf(calls).result = ClientError("NoSuchBucket")
    /\ ret = <<FALSE>>

\* Loading the model or the Predict call raised.
ModelFailed == Failed({"load_model", "predict"}) # {}

\* C6: in the pipeline, when loading the model or Predict raises, the run
\* ends with the wrapped error "Error during prediction"; the output table is
\* not assembled, the output staging file not written, Upload not attempted.
C6_PredictionFailureFatal ==
    ModelFailed =>
        /\ pc = "raised"
        /\ raised = Wrapped("Error during prediction")
        /\ preds_df = <<>>
        /\ Ops({"to_csv", "boto3.client", "upload_file"}) \subseteq
              {i \in 1..Len(calls) : \A j \in Failed({"load_model", "predict"}) : i < j}
        /\ Ops({"to_csv", "upload_file"}) = {}
        /\ LastOf(calls).result # NoExc

C6_Witness ==
    /\ ModelFailed
    /\ LastOf(calls).op = "predict"
    /\ pc = "raised"

\* C7: the assembled output table has as many rows as the input table, and
\* row i holds the PassengerId of input row i and prediction i; the staged
\* output file holds the same pairs in the same order under the header
\* PassengerId, predictions.
C7_PositionalPairing ==
    preds_df # <<>> =>
        LET t == preds_df[1]
            n == Len(remote.rows)
        IN /\ Len(t) = n
           /\ Len(predictions[1]) = n
           /\ \A i \in 1..n :
                /\ t[i].PassengerId = remote.rows[i][1]
                /\ t[i].predictions = predictions[1][i]
           /\ Ops({"to_csv"}) # {} =>
                /\ fs[PredCsv][1].header = <<"PassengerId", "predictions">>
                /\ Len(fs[PredCsv][1].rows) = n
                /\ \A i \in 1..n :
                     fs[PredCsv][1].rows[i] = <<remote.rows[i][1], predictions[1][i]>>

C7_Witness ==
    /\ preds_df # <<>>
    /\ Ops({"to_csv"}) # {}
    /\ Len(preds_df[1]) >= 2
    /\ preds_df[1][1].PassengerId = preds_df[1][2].PassengerId
    /\ preds_df[1][1].predictions # preds_df[1][2].predictions

UploadSucceeded == \E i \in Ops({"upload_file"}) : calls[i].result = NoExc

\* C9 (as claimed): on success Upload returns the success indicator together
\* with the URL of the object.
C9_ReturnsUrl ==
    UploadSucceeded => Len(ret) = 2 /\ ret[1] = TRUE /\ ret[2] = file_url

\* C9 (amended): on success Upload returns the success indicator alone; the
\* URL is printed, not returned.  The key used is the supplied object_key or,
\* without one, the base name of the local file, and the URL printed is
\* https://<bucket>.s3.<region>.amazonaws.com/<key> without an endpoint and
\* <endpoint>/<bucket>/<key> with one.
C9_ReturnsTrueAndPrintsUrl ==
    UploadSucceeded =>
        LET key == LastOf(calls).key
            n == Len(file_url)
            m == Len(Join(key))
        IN /\ ret = <<TRUE>>
           /\ LastOf(calls).op = "upload_file"
           /\ LastOf(out) = "file_url"
           /\ key = IF args.object_key = <<>>
                    THEN <<args.file_path[Len(args.file_path)]>>
                    ELSE args.object_key
           /\ SubSeq(file_url, n - m + 1, n) = Join(key)
           /\ IF args.endpoint_url = "None"
              THEN SubSeq(file_url, 1, n - m) =
                      <<"https://", args.bucket_name, ".s3.", args.region,
                        ".amazonaws.com/">>
              ELSE SubSeq(file_url, 1, n - m) =
                      <<args.endpoint_url, "/", args.bucket_name, "/">>

C9_Witness ==
    /\ UploadSucceeded
    /\ entry = "upload"
    /\ args.object_key = <<>>
    /\ Len(args.file_path) > 1
    /\ args.endpoint_url = "None"
    /\ pc = "done"

\* The place of each external operation in a run of the pipeline.
Rank(op) ==
    CASE op = "head_object" -> 1
      [] op = "download_file" -> 2
      [] op = "set_tracking_uri" -> 3
      [] op = "load_model" -> 4
      [] op = "predict" -> 5
      [] op = "upload_file" -> 6
      [] OTHER -> 0

\* C10: in a run of the pipeline each external operation (probe, download,
\* tracking configuration, model load, Predict, upload) is attempted at most
\* once and in that order; the tracking endpoint is set once, before any
\* load, to the configured value; the model is loaded once and used for one
\* Predict call.
C10_OnceInOrder ==
    entry = "main" =>
        /\ \A i, j \in 1..Len(calls) :
              (i < j /\ Rank(calls[i].op) > 0 /\ Rank(calls[j].op) > 0)
                 => Rank(calls[i].op) < Rank(calls[j].op)
        /\ tracking_uri = IF Ops({"set_tracking_uri"}) = {} THEN <<>>
                          ELSE <<env.MLFLOW_TRACKING_URI>>
        /\ Ops({"load_model"}) # {} => tracking_uri # <<>>
        /\ model # <<>> <=> \E i \in Ops({"load_model"}) : calls[i].result = NoExc
        /\ Ops({"predict"}) # {} => model # <<>>
        /\ (model # <<>> /\ pc # "predict_call") => Cardinality(Ops({"predict"})) = 1

C10_Witness ==
    /\ entry = "main"
    /\ pc = "done"
    /\ [i \in 1..Len(calls) |-> calls[i].op] =
          <<"boto3.client", "head_object", "download_file", "set_tracking_uri",
            "load_model", "predict", "to_csv", "boto3.client", "upload_file">>

====
